---- MODULE Spec2Model ----
(***************************************************************************)
(* Model of xcube_resampling.rectifier.Rectifier: forward pixel index,     *)
(* covering destination grid, per-tile source bounding boxes, inverse      *)
(* pixel index (painter algorithm over source triangles) and nearest       *)
(* neighbour resampling.                                                   *)
(*                                                                         *)
(* Coordinates are integers (CRS units).  On integer inputs every float64  *)
(* operation of the code up to the barycentric quotient is exact, so the   *)
(* model computes in exact integer / rational arithmetic.  A rational is a *)
(* pair <<n, d>> with d > 0; a NaN index is a record with nan = TRUE.      *)
(***************************************************************************)
EXTENDS Integers, FiniteSets, Sequences, TLC

\* ------------------------------------------------------------------ bounds
SrcHeight == 3
SrcWidth == 2
MaxOrigin == 1
NumBands == 2
MaxCoverings == 2

\* an evaluation counter stops counting at MaxEvaluations
MaxEvaluations == 2

\* ----------------------------------------------------------- arithmetic
Abs(a) == IF a < 0 THEN -a ELSE a

Sgn(a) == IF a < 0 THEN -1 ELSE IF a > 0 THEN 1 ELSE 0

Min(S) == CHOOSE a \in S : \A b \in S : a <= b

Max(S) == CHOOSE a \in S : \A b \in S : a >= b

\* np.floor(a / b) for integers a, b with b # 0 (b may be negative)
FloorDiv(a, b) == IF b > 0 THEN a \div b ELSE (-a) \div (-b)

\* np.ceil(a / b) for integers a, b with b > 0
CeilDiv(a, b) == -((-a) \div b)

\* math.ceil(a / b) for a >= 0, b > 0
NumBlocks(a, b) == CeilDiv(a, b)

\* an array held in memory: the function f with every element evaluated once
Array(f) == f @@ <<>>


\* ------------------------------------------------------------------ inputs
\* Grid (xcube_resampling.grid): crs, origin at the upper left corner of
\* pixel (0,0), resolution, size in pixels, tile size.
Grid(crs, origin, res, size, tile_size) ==
    [crs |-> crs, x_min |-> origin[1], y_min |-> origin[2],
     x_res |-> res[1], y_res |-> res[2],
     width |-> size[1], height |-> size[2],
     tile_width |-> tile_size[1], tile_height |-> tile_size[2]]

\* pixel positions <<row, col>> of an array of the given shape <<rows, cols>>
Pixels(shape) == (0 .. shape[1] - 1) \X (0 .. shape[2] - 1)

\* dask chunking: chunksize is the largest chunk, (rows, cols)
ChunkSize(shape, chunks) ==
    <<Min({shape[1], chunks[1]}), Min({shape[2], chunks[2]})>>

\* block ids <<block row, block col>> of an array with the given chunking
BlockIds(shape, chunks) ==
    (0 .. NumBlocks(shape[1], chunks[1]) - 1) \X (0 .. NumBlocks(shape[2], chunks[2]) - 1)

\* pixels (global <<row, col>>) of block block_id
BlockPixels(shape, chunks, block_id) ==
    {p \in Pixels(shape) : /\ p[1] \div chunks[1] = block_id[1]
                           /\ p[2] \div chunks[2] = block_id[2]}

\* ----------------------------------------------------------- forward index
\* trafo.transform(lon, lat) of the external CRS library for a projected
\* destination CRS: some fixed map that is not the identity.
transform(lon, lat) == <<lon + lat, lat - lon>>

\* Coordinate Mapper: identity for a geographic destination CRS
dst_xy(lon, lat, dst_grid) ==
    IF dst_grid.crs = "geographic" THEN <<lon, lat>> ELSE transform(lon, lat)

\* mutant of dst_pixel_of: the index clamped to the grid
dst_pixel_of_clamped(lon, lat, dst_grid) ==
    LET xy == dst_xy(lon, lat, dst_grid)
    IN  <<Max({0, Min({dst_grid.width - 1,
                       FloorDiv(xy[1] - dst_grid.x_min, dst_grid.x_res)})}),
          Max({0, Min({dst_grid.height - 1,
                       FloorDiv(xy[2] - dst_grid.y_min, dst_grid.y_res)})})>>

\* dst pixel <<i, j>> of one source pixel: floor, no clamping
dst_pixel_of(lon, lat, dst_grid) ==
    LET xy == dst_xy(lon, lat, dst_grid)
    IN  <<FloorDiv(xy[1] - dst_grid.x_min, dst_grid.x_res),
          FloorDiv(xy[2] - dst_grid.y_min, dst_grid.y_res)>>

\* Rectifier.block_dst_pixels_of_src_block mapped over all source blocks:
\* the forward index as a function from source pixel to <<i, j>>
block_dst_pixels_of_src_block(lon, lat, dst_grid) ==
    Array([p \in DOMAIN lon |-> dst_pixel_of(lon[p], lat[p], dst_grid)])

\* Rectifier.dst_bbox_of_src_block: <<i_min, j_min, i_max, j_max>> of a block
dst_bbox_of_src_block(forward_index, block_pixels) ==
    <<Min({forward_index[p][1] : p \in block_pixels}),
      Min({forward_index[p][2] : p \in block_pixels}),
      Max({forward_index[p][1] : p \in block_pixels}),
      Max({forward_index[p][2] : p \in block_pixels})>>

\* mutant of covering_dst_grid: the size without the last column and row
covering_dst_grid_short(forward_index, shape, chunks, dst_grid) ==
    LET i_min == Min({forward_index[p][1] : p \in DOMAIN forward_index})
        j_min == Min({forward_index[p][2] : p \in DOMAIN forward_index})
        i_max == Max({forward_index[p][1] : p \in DOMAIN forward_index})
        j_max == Max({forward_index[p][2] : p \in DOMAIN forward_index})
    IN  Grid(dst_grid.crs,
             <<i_min * dst_grid.x_res, j_min * dst_grid.y_res>>,
             <<dst_grid.x_res, dst_grid.y_res>>,
             <<i_max - i_min, j_max - j_min>>,
             <<dst_grid.tile_width, dst_grid.tile_height>>)

\* the Grid computed by Rectifier.determine_covering_dst_grid
covering_dst_grid(forward_index, shape, chunks, dst_grid) ==
    LET bboxes == {dst_bbox_of_src_block(forward_index, BlockPixels(shape, chunks, b)) :
                       b \in BlockIds(shape, chunks)}
        i_min == Min({b[1] : b \in bboxes})
        j_min == Min({b[2] : b \in bboxes})
        i_max == Max({b[3] : b \in bboxes})
        j_max == Max({b[4] : b \in bboxes})
    IN  Grid(dst_grid.crs,
             <<i_min * dst_grid.x_res, j_min * dst_grid.y_res>>,
             <<dst_grid.x_res, dst_grid.y_res>>,
             <<i_max - i_min + 1, j_max - j_min + 1>>,
             <<dst_grid.tile_width, dst_grid.tile_height>>)

\* -------------------------------------------------------------- tile bounds
\* dst tiles <<tj, ti>> of a grid
DstTiles(dst_grid) ==
    (0 .. NumBlocks(dst_grid.height, dst_grid.tile_height) - 1)
        \X (0 .. NumBlocks(dst_grid.width, dst_grid.tile_width) - 1)

\* one source block of an array as a local array: [shape, at[<<local row, local col>>]]
BlockOf(array, shape, chunks, block_id) ==
    LET rows == Min({chunks[1], shape[1] - block_id[1] * chunks[1]})
        cols == Min({chunks[2], shape[2] - block_id[2] * chunks[2]})
    IN  [shape |-> <<rows, cols>>,
         at |-> Array([q \in Pixels(<<rows, cols>>) |->
                    array[<<block_id[1] * chunks[1] + q[1], block_id[2] * chunks[2] + q[2]>>]])]

\* mutant of dst_bboxes_of_src_block: the boxes without the margin
dst_bboxes_of_src_block_tight(forward_index_block, dst_grid, src_tile_size, src_size, block_id) ==
    LET inside(t) == {q \in DOMAIN forward_index_block.at :
                         /\ forward_index_block.at[q][2] \div dst_grid.tile_height = t[1]
                         /\ forward_index_block.at[q][1] \div dst_grid.tile_width = t[2]
                         /\ forward_index_block.at[q][2] < dst_grid.height
                         /\ forward_index_block.at[q][1] < dst_grid.width}
        rows(t) == {q[1] + block_id[1] * src_tile_size[1] : q \in inside(t)}
        cols(t) == {q[2] + block_id[2] * src_tile_size[2] : q \in inside(t)}
    IN  [t \in DstTiles(dst_grid) |->
            IF inside(t) # {}
            THEN <<Min(cols(t)), Min(rows(t)), Max(cols(t)) + 1, Max(rows(t)) + 1>>
            ELSE <<src_size[2], src_size[1], -1, -1>>]

\* Rectifier.dst_bboxes_of_src_block: for one source block, per dst tile the
\* box <<col_min, row_min, col_max, row_max>> of the source pixels whose
\* forward index is inside the dst tile, with margin, or the sentinel
dst_bboxes_of_src_block(forward_index_block, dst_grid, src_tile_size, src_size, block_id) ==
    LET src_block_offset_col == block_id[2] * src_tile_size[2]
        src_block_offset_row == block_id[1] * src_tile_size[1]
        dst_left(ti) == ti * dst_grid.tile_width
        dst_right(ti) == Min({(ti + 1) * dst_grid.tile_width, dst_grid.width})
        dst_down(tj) == tj * dst_grid.tile_height
        dst_up(tj) == Min({(tj + 1) * dst_grid.tile_height, dst_grid.height})
        inside(t) == {q \in DOMAIN forward_index_block.at :
                         /\ forward_index_block.at[q][2] >= dst_down(t[1])
                         /\ forward_index_block.at[q][2] < dst_up(t[1])
                         /\ forward_index_block.at[q][1] >= dst_left(t[2])
                         /\ forward_index_block.at[q][1] < dst_right(t[2])}
        src_block_rows(t) == {q[1] + src_block_offset_row : q \in inside(t)}
        src_block_cols(t) == {q[2] + src_block_offset_col : q \in inside(t)}
    IN  Array([t \in DstTiles(dst_grid) |->
            IF inside(t) # {}
            THEN <<Max({Min(src_block_cols(t)) - 1, 0}),
                   Max({Min(src_block_rows(t)) - 1, 0}),
                   Min({Max(src_block_cols(t)) + 2, src_size[2]}),
                   Min({Max(src_block_rows(t)) + 2, src_size[1]})>>
            ELSE <<src_size[2], src_size[1], -1, -1>>])

\* bbox_blocks_raw of create_inverse_pixel_index: per source block the boxes
bbox_blocks_raw_of(forward_index, dst_grid, shape, chunks) ==
    Array([b \in BlockIds(shape, chunks) |->
        dst_bboxes_of_src_block(BlockOf(forward_index, shape, chunks, b), dst_grid,
                                ChunkSize(shape, chunks), shape, b)])

\* mutant of bbox_blocks_of: the four channels all merged by their minimum
bbox_blocks_of_min(bbox_blocks_raw, dst_grid) ==
    [t \in DstTiles(dst_grid) |->
        <<Min({bbox_blocks_raw[b][t][1] : b \in DOMAIN bbox_blocks_raw}),
          Min({bbox_blocks_raw[b][t][2] : b \in DOMAIN bbox_blocks_raw}),
          Min({bbox_blocks_raw[b][t][3] : b \in DOMAIN bbox_blocks_raw}),
          Min({bbox_blocks_raw[b][t][4] : b \in DOMAIN bbox_blocks_raw})>>]

\* bbox_blocks of create_inverse_pixel_index: min of the min channels and
\* max of the max channels over all source blocks
bbox_blocks_of(bbox_blocks_raw, dst_grid) ==
    [t \in DstTiles(dst_grid) |->
        <<Min({bbox_blocks_raw[b][t][1] : b \in DOMAIN bbox_blocks_raw}),
          Min({bbox_blocks_raw[b][t][2] : b \in DOMAIN bbox_blocks_raw}),
          Max({bbox_blocks_raw[b][t][3] : b \in DOMAIN bbox_blocks_raw}),
          Max({bbox_blocks_raw[b][t][4] : b \in DOMAIN bbox_blocks_raw})>>]

\* Python slice start:stop over an axis of length n: <<first, length>>
Slice(start, stop, n) ==
    LET norm(k) == IF k < 0 THEN Max({k + n, 0}) ELSE Min({k, n})
    IN  <<norm(start), Max({norm(stop) - norm(start), 0})>>

\* src_lon_lat[:, bbox[1]:bbox[3], bbox[0]:bbox[2]] as a local array
src_subset_of(lon, lat, shape, bbox) ==
    LET rs == Slice(bbox[2], bbox[4], shape[1])
        cs == Slice(bbox[1], bbox[3], shape[2])
    IN  [shape |-> <<rs[2], cs[2]>>,
         lon |-> Array([q \in Pixels(<<rs[2], cs[2]>>) |-> lon[<<rs[1] + q[1], cs[1] + q[2]>>]]),
         lat |-> Array([q \in Pixels(<<rs[2], cs[2]>>) |-> lat[<<rs[1] + q[1], cs[1] + q[2]>>]])]

\* ------------------------------------------------------------ inverse index
\* numerical accuracy parameter uv_delta = 1 / UvDeltaInv
UvDeltaInv == 1000

\* quads of a source subset: <<row, col>> of the upper left point P0
Quads(subset_shape) == Pixels(<<subset_shape[1] - 1, subset_shape[2] - 1>>)

\* Rectifier.triangles_in_dst_pixel_grid: per quad the points P0..P3 as
\* fractional pixel coordinates relative to the dst block; the i coordinates
\* are scaled by |x_res| and the j coordinates by |y_res| to stay integer
triangles_in_dst_pixel_grid(src_subset, dst_grid, block_id) ==
    LET subset_i(q) ==
            Sgn(dst_grid.x_res)
                * (dst_xy(src_subset.lon[q], src_subset.lat[q], dst_grid)[1] - dst_grid.x_min)
            - block_id[2] * dst_grid.tile_width * Abs(dst_grid.x_res)
        subset_j(q) ==
            Sgn(dst_grid.y_res)
                * (dst_xy(src_subset.lon[q], src_subset.lat[q], dst_grid)[2] - dst_grid.y_min)
            - block_id[1] * dst_grid.tile_height * Abs(dst_grid.y_res)
        corners(q) == <<q, <<q[1], q[2] + 1>>, <<q[1] + 1, q[2]>>, <<q[1] + 1, q[2] + 1>> >>
    IN  Array([q \in Quads(src_subset.shape) |->
            [i |-> Array([k \in 1 .. 4 |-> subset_i(corners(q)[k])]),
             j |-> Array([k \in 1 .. 4 |-> subset_j(corners(q)[k])])]])

\* Rectifier.bboxes_of_triangles: per quad the upper left pixel of its box,
\* and the largest box width and height of the quads whose P0 is inside the
\* dst block
bboxes_of_triangles(four_points, dst_grid) ==
    LET ax == Abs(dst_grid.x_res)
        ay == Abs(dst_grid.y_res)
        is_inside_dst_block ==
            {q \in DOMAIN four_points :
                /\ four_points[q].i[1] >= 0
                /\ four_points[q].j[1] >= 0
                /\ four_points[q].i[1] <= dst_grid.tile_width * ax
                /\ four_points[q].j[1] <= dst_grid.tile_height * ay}
        bboxes_min_i(q) == FloorDiv(Min({four_points[q].i[k] : k \in 1 .. 4}), ax)
        bboxes_min_j(q) == FloorDiv(Min({four_points[q].j[k] : k \in 1 .. 4}), ay)
        bboxes_max_i(q) == CeilDiv(Max({four_points[q].i[k] : k \in 1 .. 4}), ax)
        bboxes_max_j(q) == CeilDiv(Max({four_points[q].j[k] : k \in 1 .. 4}), ay)
    IN  [min_i |-> Array([q \in DOMAIN four_points |-> bboxes_min_i(q)]),
         min_j |-> Array([q \in DOMAIN four_points |-> bboxes_min_j(q)]),
         max_width |-> IF is_inside_dst_block # {}
                       THEN Max({bboxes_max_i(q) - bboxes_min_i(q) : q \in is_inside_dst_block})
                       ELSE 0,
         max_height |-> IF is_inside_dst_block # {}
                        THEN Max({bboxes_max_j(q) - bboxes_min_j(q) : q \in is_inside_dst_block})
                        ELSE 0]

\* mutant of dst_block_shape: every dst block has the nominal tile size
dst_block_shape_nominal(dst_grid, block_id) == <<dst_grid.tile_height, dst_grid.tile_width>>

\* extent <<height, width>> of dst block block_id (lines 362-369)
dst_block_shape(dst_grid, block_id) ==
    LET num_complete_tile_cols == NumBlocks(dst_grid.width, dst_grid.tile_width) - 1
        num_complete_tile_rows == NumBlocks(dst_grid.height, dst_grid.tile_height) - 1
    IN  <<IF block_id[1] < num_complete_tile_rows
          THEN dst_grid.tile_height
          ELSE dst_grid.height - num_complete_tile_rows * dst_grid.tile_height,
          IF block_id[2] < num_complete_tile_cols
          THEN dst_grid.tile_width
          ELSE dst_grid.width - num_complete_tile_cols * dst_grid.tile_width>>

\* mutant of barycentric: a zero determinant is replaced by one
barycentric_regularised(pts, tri, dst_grid, dst_j, dst_i) ==
    LET ax == Abs(dst_grid.x_res)
        ay == Abs(dst_grid.y_res)
        o == IF tri = "a" THEN 1 ELSE 4
        p1 == IF tri = "a" THEN 2 ELSE 3
        p2 == IF tri = "a" THEN 3 ELSE 2
        det == (pts.i[o] - pts.i[p1]) * (pts.j[o] - pts.j[p2])
               - (pts.i[o] - pts.i[p2]) * (pts.j[o] - pts.j[p1])
        di == 2 * pts.i[o] - (2 * dst_i + 1) * ax
        dj == 2 * pts.j[o] - (2 * dst_j + 1) * ay
        u2 == di * (pts.j[o] - pts.j[p2]) - dj * (pts.i[o] - pts.i[p2])
        v2 == dj * (pts.i[o] - pts.i[p1]) - di * (pts.j[o] - pts.j[p1])
    IN  [un |-> Sgn(det) * u2, vn |-> Sgn(det) * v2,
         d |-> IF det = 0 THEN 2 ELSE 2 * Abs(det)]

\* The barycentric coordinates of the centre of dst pixel <<dst_j, dst_i>> in
\* one triangle of a quad.  tri = "a": origin P0, u along P1, v along P2;
\* tri = "b": origin P3, u along P2, v along P1.  Result [un, vn, d] with
\* u = un / d, v = vn / d and d > 0, or d = 0 for a triangle of zero area
\* (the code divides by zero: inf or nan, which fails every comparison).
barycentric(pts, tri, dst_grid, dst_j, dst_i) ==
    LET ax == Abs(dst_grid.x_res)
        ay == Abs(dst_grid.y_res)
        o == IF tri = "a" THEN 1 ELSE 4
        p1 == IF tri = "a" THEN 2 ELSE 3
        p2 == IF tri = "a" THEN 3 ELSE 2
        det == (pts.i[o] - pts.i[p1]) * (pts.j[o] - pts.j[p2])
               - (pts.i[o] - pts.i[p2]) * (pts.j[o] - pts.j[p1])
        \* twice the scaled offsets P.i - dst_i - 0.5 and P.j - dst_j - 0.5
        di == 2 * pts.i[o] - (2 * dst_i + 1) * ax
        dj == 2 * pts.j[o] - (2 * dst_j + 1) * ay
        u2 == di * (pts.j[o] - pts.j[p2]) - dj * (pts.i[o] - pts.i[p2])
        v2 == dj * (pts.i[o] - pts.i[p1]) - di * (pts.j[o] - pts.j[p1])
    IN  [un |-> Sgn(det) * u2, vn |-> Sgn(det) * v2, d |-> 2 * Abs(det)]

\* mutant of is_inside_triangle: the test without the tolerance uv_delta
is_inside_triangle_exact(uv) ==
    /\ uv.d > 0
    /\ uv.un >= 0
    /\ uv.vn >= 0
    /\ uv.un + uv.vn <= uv.d

\* is_inside_triangle_a / _b without the dst extent test:
\* u >= -uv_delta, v >= -uv_delta, u + v <= 1 + 2 * uv_delta
is_inside_triangle(uv) ==
    /\ uv.d > 0
    /\ UvDeltaInv * uv.un >= -uv.d
    /\ UvDeltaInv * uv.vn >= -uv.d
    /\ UvDeltaInv * (uv.un + uv.vn) <= (UvDeltaInv + 2) * uv.d

\* value written for quad q: <<col, row>>, each a rational <<n, d>>;
\* src_offset2 is twice src_offset (which is bbox + 0.5)
written_value(q, tri, uv, src_offset2) ==
    IF tri = "a"
    THEN << <<(2 * q[2] + src_offset2[1]) * (uv.d \div 2) + uv.un, uv.d>>,
            <<(2 * q[1] + src_offset2[2]) * (uv.d \div 2) + uv.vn, uv.d>> >>
    ELSE << <<(2 * q[2] + src_offset2[1] + 2) * (uv.d \div 2) - uv.un, uv.d>>,
            <<(2 * q[1] + src_offset2[2] + 2) * (uv.d \div 2) - uv.vn, uv.d>> >>

\* mutant of last_write: the first assignment to an element is kept
first_write(positions) == Min(positions)

\* of the assignments to one element of result_col / result_row, at the
\* given positions in the order of execution, the last one is kept
last_write(positions) == Max(positions)

\* value of an uncovered pixel of the inverse index
NanIndex == [nan |-> TRUE, col |-> <<0, 1>>, row |-> <<0, 1>>]

\* Rectifier.inverse_index_of_dst_block_with_src_subset.  The result is
\* [error, block]: np.tile raises ValueError for a source subset without
\* rows or columns (its repetition count shape - 1 is negative); otherwise
\* block maps every pixel <<j, i>> of the dst block to the value written
\* last.  The sweep is ordered by j_offset, i_offset, triangle a before b;
\* numpy does not define the order of one masked assignment that writes a
\* pixel from several quads: dup = "last" is row-major order, "first" the
\* reverse.
inverse_index_of_dst_block_with_src_subset(src_subset, src_offset2, dst_grid, block_id, dup) ==
    LET four_points == triangles_in_dst_pixel_grid(src_subset, dst_grid, block_id)
        bb == bboxes_of_triangles(four_points, dst_grid)
        shape == dst_block_shape(dst_grid, block_id)
        num_quads == Cardinality(DOMAIN four_points)
        quad_no(q) == q[1] * (src_subset.shape[2] - 1) + q[2]
        \* the writes to pixel p: [at, q, tri, uv], at = position in the sweep
        writes(p) ==
            {[at |-> (((p[1] - bb.min_j[w[1]]) * bb.max_width + (p[2] - bb.min_i[w[1]])) * 2
                        + (IF w[2] = "a" THEN 0 ELSE 1)) * num_quads
                     + (IF dup = "last" THEN quad_no(w[1]) ELSE num_quads - 1 - quad_no(w[1])),
              q |-> w[1], tri |-> w[2],
              uv |-> barycentric(four_points[w[1]], w[2], dst_grid, p[1], p[2])] :
                w \in {v \in (DOMAIN four_points) \X {"a", "b"} :
                          /\ p[1] - bb.min_j[v[1]] \in 0 .. bb.max_height - 1
                          /\ p[2] - bb.min_i[v[1]] \in 0 .. bb.max_width - 1
                          /\ is_inside_triangle(
                                 barycentric(four_points[v[1]], v[2], dst_grid, p[1], p[2]))}}
        value(ws) ==
            IF ws = {} THEN NanIndex
            ELSE LET w == CHOOSE w \in ws : w.at = last_write({v.at : v \in ws})
                     val == written_value(w.q, w.tri, w.uv, src_offset2)
                 IN  [nan |-> FALSE, col |-> val[1], row |-> val[2]]
    IN  IF \/ src_subset.shape[1] = 0 \/ src_subset.shape[2] = 0
           \/ shape[1] < 0 \/ shape[2] < 0
        THEN [error |-> TRUE, block |-> <<>>]
        ELSE [error |-> FALSE, block |-> Array([p \in Pixels(shape) |-> value(writes(p))])]

\* --------------------------------------------------------------- resampling
\* np.around of the rational r = <<n, d>>, d > 0: nearest integer, a half
\* is rounded to the even neighbour
np_around(r) ==
    LET q == r[1] \div r[2]
        rem == r[1] - q * r[2]
    IN  IF 2 * rem < r[2] THEN q
        ELSE IF 2 * rem > r[2] THEN q + 1
        ELSE IF q % 2 = 0 THEN q ELSE q + 1

\* intblock of rectify_nearest_neighbour: <<block_i, block_j>> per dst pixel,
\* NaN becomes -1
intblock_of(block) ==
    Array([p \in DOMAIN block |->
        IF block[p].nan THEN <<-1, -1>>
        ELSE <<np_around(block[p].col), np_around(block[p].row)>>])

\* the band values of the source measurements: band b at source pixel p is
\* the symbolic value <<b, row, col>>; NaN is <<0, -1, -1>>
Bands == 1 .. NumBands

measurement(b, p) == <<b, p[1], p[2]>>

NanValue == <<0, -1, -1>>

\* block_tile of rectify_nearest_neighbour for one dst pixel
block_tile_of(ij, chunksize, num_tiles_col) ==
    IF ij[2] = -1 \/ ij[1] = -1 THEN -1
    ELSE (ij[2] \div chunksize[1]) * num_tiles_col + (ij[1] \div chunksize[2])

\* tile_set of rectify_nearest_neighbour for one dst block: [error, tiles].
\* tile_array has num_tiles + 1 entries; an index outside
\* -(num_tiles + 1) .. num_tiles raises IndexError, a negative index counts
\* from the end, and entry num_tiles is sliced away
tile_set_of(intblock, chunksize, num_tiles_row, num_tiles_col) ==
    LET num_tiles == num_tiles_row * num_tiles_col
        block_tile == {block_tile_of(intblock[p], chunksize, num_tiles_col) : p \in DOMAIN intblock}
        position(k) == IF k < 0 THEN k + num_tiles + 1 ELSE k
    IN  IF \E k \in block_tile : k > num_tiles \/ k < -(num_tiles + 1)
        THEN [error |-> TRUE, tiles |-> {}]
        ELSE [error |-> FALSE,
              tiles |-> {position(k) : k \in block_tile} \ {num_tiles}]

\* Rectifier.rectify_tiles_to_block: per dst pixel the band values; the
\* measurements of source tile `tile` are the block of that tile
rectify_tiles_to_block(intblock, src_tilesize, num_blocks_i, tiles, src_shape, src_chunks) ==
    LET tile_j(tile) == tile \div num_blocks_i
        tile_i(tile) == tile % num_blocks_i
        \* tile_measurements.shape[1:] of the tile's block
        tile_shape(tile) ==
            <<Min({src_chunks[1], src_shape[1] - tile_j(tile) * src_chunks[1]}),
              Min({src_chunks[2], src_shape[2] - tile_i(tile) * src_chunks[2]})>>
        shifted_j(tile, p) == intblock[p][2] - tile_j(tile) * src_tilesize[1]
        shifted_i(tile, p) == intblock[p][1] - tile_i(tile) * src_tilesize[2]
        tile_mask(tile, p) ==
            /\ intblock[p][2] \div src_tilesize[1] = tile_j(tile)
            /\ intblock[p][1] \div src_tilesize[2] = tile_i(tile)
            /\ shifted_j(tile, p) >= 0
            /\ shifted_j(tile, p) < tile_shape(tile)[1]
            /\ shifted_i(tile, p) >= 0
            /\ shifted_i(tile, p) < tile_shape(tile)[2]
        \* m[b, shifted_j, shifted_i] of the tile's measurement stack
        m(tile, b, p) ==
            measurement(b, <<tile_j(tile) * src_chunks[1] + shifted_j(tile, p),
                             tile_i(tile) * src_chunks[2] + shifted_i(tile, p)>>)
    IN  [p \in DOMAIN intblock |->
            [b \in Bands |->
                IF \E tile \in tiles : tile_mask(tile, p)
                THEN m(CHOOSE tile \in tiles : tile_mask(tile, p), b, p)
                ELSE NanValue]]

\* ------------------------------------------------------------------- state
VARIABLES
    src_lon,        \* source longitudes, [<<row, col>> -> Int]
    src_lat,        \* source latitudes
    src_shape,      \* <<rows, cols>> of the source image
    src_chunks,     \* <<rows, cols>> of a source tile
    dst_grid,       \* the Grid object self.dst_grid refers to
    forward_index,  \* self.forward_index: the lazy array and the Grid object its blocks read
    inverse_index,  \* self.inverse_index: the lazy array, its boxes, the Grid object its nodes read
    inverse_block,  \* the Inverse-Index node evaluated last, and its result
    rectified,      \* the array returned by rectify_nearest_neighbour: its nodes
    output_block,   \* the Resample node evaluated last, and its result
    outcome,        \* the last method call and how it ended
    num_coverings,  \* number of times determine_covering_dst_grid replaced the Grid
    evaluations,    \* how often the methods evaluated the Forward-Index and the Tile-Bounds nodes
    flow,           \* 0: the caller calls the methods; k: rectify_to_covering_grid is at its k-th call
    numpy_order     \* which of the values assigned to one element by one assignment numpy keeps

vars == <<src_lon, src_lat, src_shape, src_chunks, dst_grid, forward_index,
          inverse_index, inverse_block, rectified, output_block, outcome, num_coverings,
          evaluations, flow, numpy_order>>

inputs == <<src_lon, src_lat, src_shape, src_chunks, numpy_order>>

\* source images: pixel centres on a lattice, origin plus a step per column
\* and per row, <<lon per col, lon per row, lat per col, lat per row>>
SrcSteps == {<<2, 0, 0, -2>>, <<2, -1, -1, -2>>, <<4, 0, 0, -4>>,
             <<1, 0, 0, -1>>, <<2, 2, 2, -2>>, <<2, 0, 0, 0>>}

SrcChunks == {<<2, 1>>, <<2, 2>>}

\* the lattice row at which source row r lies: in order; the rows after row
\* 1 repeating it (quads of zero area); the rows after row 0 in reverse
\* order (the quads of row 0 overlap the quads below)
SrcRows == {"lattice", "flat", "folded"}

RowAt(rows, r) ==
    CASE rows = "lattice" -> r
      [] rows = "flat" -> Min({r, 1})
      [] rows = "folded" -> IF r = 0 THEN 0 ELSE SrcHeight - r

\* the shift in longitude of source row r: the folded image is sheared at
\* row 1, so that its overlapping quads differ in column and in row
LonShift(rows, r) == IF rows = "folded" /\ r = 1 THEN 1 ELSE 0

\* mutant of CoveringFlow: the inverse index is built before the covering grid
CoveringFlowInverseFirst == <<"create_forward_pixel_index", "create_inverse_pixel_index",
                              "determine_covering_dst_grid", "rectify_nearest_neighbour">>

\* the calls of rectify_to_covering_grid (lines 641-644), in their order
CoveringFlow == <<"create_forward_pixel_index", "determine_covering_dst_grid",
                  "create_inverse_pixel_index", "rectify_nearest_neighbour">>

\* destination grids: preliminary grids (size 0) for the covering-grid flow,
\* one of them with an origin other than (0, 0), and grids given in full
DstGrids ==
    {Grid(crs, <<0, 0>>, <<2, -2>>, <<0, 0>>, <<2, 2>>) : crs \in {"geographic", "projected"}}
    \cup {Grid("geographic", <<1, -1>>, <<2, -2>>, <<0, 0>>, <<2, 2>>),
          Grid("geographic", <<0, 0>>, <<2, -2>>, <<3, 3>>, <<2, 2>>),
          Grid("geographic", <<-2, -6>>, <<2, 2>>, <<4, 3>>, <<2, 2>>)}

\* dst_grid of a Rectifier constructed without a destination grid (None)
NoGrid == Grid("None", <<0, 0>>, <<1, 1>>, <<0, 0>>, <<1, 1>>)

\* a grid of coarse columns for the source images below
WideGrid == Grid("geographic", <<0, 0>>, <<1000, -2>>, <<2, 2>>, <<2, 2>>)

\* source images with quads 996 and 1004 wide whose first column is 1 (a
\* thousandth of a pixel of WideGrid) right of the pixel centres of column 0:
\* the centres are outside the triangles by more and by less than uv_delta
WideSteps == {996, 1004}

NoBlock == [tile |-> <<-1, -1>>, error |-> FALSE, block |-> <<>>]

Init ==
    /\ src_shape = <<SrcHeight, SrcWidth>>
    /\ src_chunks \in SrcChunks
    /\ \/ /\ \E step \in SrcSteps, origin \in 0 .. MaxOrigin, rows \in SrcRows :
                /\ rows # "lattice" => step = <<2, 0, 0, -2>>
                /\ src_lon = [p \in Pixels(src_shape) |->
                                  origin + p[2] * step[1] + RowAt(rows, p[1]) * step[2]
                                  + LonShift(rows, p[1])]
                /\ src_lat = [p \in Pixels(src_shape) |->
                                  -origin + p[2] * step[3] + RowAt(rows, p[1]) * step[4]]
          /\ dst_grid \in DstGrids \cup {NoGrid}
       \/ /\ \E step \in WideSteps :
                /\ src_lon = [p \in Pixels(src_shape) |-> 501 + p[2] * step]
                /\ src_lat = [p \in Pixels(src_shape) |-> -1 - 2 * p[1]]
          /\ dst_grid = WideGrid
    /\ forward_index = [state |-> "missing", grid |-> dst_grid, shared |-> FALSE]
    /\ inverse_index = [state |-> "missing", grid |-> dst_grid, shared |-> FALSE,
                        made_for |-> dst_grid, bbox_blocks |-> <<>>]
    /\ inverse_block = NoBlock
    /\ rectified = [state |-> "missing", inverse |-> <<>>, nodes |-> <<>>]
    /\ output_block = NoBlock
    /\ outcome = [call |-> "__init__", result |-> "ok"]
    /\ num_coverings = 0
    /\ evaluations = [forward |-> 0, bounds |-> 0]
    /\ numpy_order \in {"first", "last"}
    /\ flow \in {0, 1}
    /\ flow = 1 => /\ <<dst_grid.x_min, dst_grid.y_min>> = <<0, 0>>
                   /\ <<dst_grid.width, dst_grid.height>> = <<0, 0>>
                   /\ dst_grid # NoGrid

\* the forward index as its blocks compute it now
ForwardIndex == block_dst_pixels_of_src_block(src_lon, src_lat, forward_index.grid)

\* A run is a sequence of method calls, ended by the array that
\* rectify_nearest_neighbour returns, and then the execution engine evaluates
\* a node of a lazy array.  Evaluating a node changes nothing of the
\* Rectifier: inverse_block and output_block hold the node evaluated.
NoNodeEvaluated == inverse_block = NoBlock /\ output_block = NoBlock

\* mutant of Computed: a stored result is reused, nothing is evaluated again
Stored(n) == Max({n, 1})

\* the counter of a kind of node after a compute() call evaluated every node
\* of that kind (dask stores no result of an earlier call)
Computed(n) == Min({n + 1, MaxEvaluations})

\* A method is called by the caller, or by rectify_to_covering_grid when it
\* is the next call of it; an error of a call ends rectify_to_covering_grid.
CallFrame(call) ==
    /\ rectified.state = "missing"
    /\ NoNodeEvaluated
    /\ \/ flow = 0
       \/ flow \in DOMAIN CoveringFlow /\ CoveringFlow[flow] = call
    /\ flow' = IF flow = 0 THEN 0
               ELSE IF outcome'.result = "ok" THEN flow + 1
               ELSE Len(CoveringFlow) + 1
    /\ UNCHANGED <<inputs, inverse_block, output_block>>

\* mutant of HasAttr: the attribute is taken to exist
HasAttrAlways(index) == TRUE

\* self.forward_index / self.inverse_index exists: __init__ does not set
\* them, reading a missing attribute raises AttributeError
HasAttr(index) == index.state # "missing"

\* Rectifier.create_forward_pixel_index: self.dst_grid.crs of a missing
\* destination grid raises AttributeError
create_forward_pixel_index ==
    /\ IF dst_grid = NoGrid
       THEN /\ outcome' = [call |-> "create_forward_pixel_index", result |-> "AttributeError"]
            /\ UNCHANGED forward_index
       ELSE /\ forward_index' = [state |-> "lazy", grid |-> dst_grid, shared |-> TRUE]
            /\ outcome' = [call |-> "create_forward_pixel_index", result |-> "ok"]
    /\ CallFrame("create_forward_pixel_index")
    /\ UNCHANGED <<dst_grid, inverse_index, rectified, num_coverings, evaluations>>

\* mutant of Adjusted: the old Grid object is left as it was
Unadjusted(grid, new_grid) == grid

\* a Grid object after lines 185-188 assigned the new origin and size to it
Adjusted(grid, new_grid) ==
    [grid EXCEPT !.x_min = new_grid.x_min, !.y_min = new_grid.y_min,
                 !.width = new_grid.width, !.height = new_grid.height]

\* Rectifier.determine_covering_dst_grid: self.forward_index does not exist
\* before create_forward_pixel_index (AttributeError).  The old Grid object
\* is adjusted in place, then self.dst_grid refers to a new Grid.
determine_covering_dst_grid ==
    /\ num_coverings < MaxCoverings
    /\ IF ~HasAttr(forward_index)
       THEN /\ outcome' = [call |-> "determine_covering_dst_grid", result |-> "AttributeError"]
            /\ UNCHANGED <<dst_grid, forward_index, inverse_index, rectified, num_coverings,
                           evaluations>>
       ELSE LET new_grid == covering_dst_grid(ForwardIndex, src_shape, src_chunks, dst_grid)
            IN  /\ dst_grid' = new_grid
                /\ forward_index' =
                       IF forward_index.shared
                       THEN [forward_index EXCEPT !.grid = Adjusted(@, new_grid),
                                                  !.shared = FALSE]
                       ELSE forward_index
                /\ inverse_index' =
                       IF inverse_index.shared
                       THEN [inverse_index EXCEPT !.grid = Adjusted(@, new_grid),
                                                  !.shared = FALSE]
                       ELSE inverse_index
                /\ outcome' = [call |-> "determine_covering_dst_grid", result |-> "ok"]
                /\ num_coverings' = num_coverings + 1
                /\ evaluations' = [evaluations EXCEPT !.forward = Computed(@)]
                /\ UNCHANGED rectified
    /\ CallFrame("determine_covering_dst_grid")

\* Rectifier.create_inverse_pixel_index: computes the forward index and the
\* boxes, builds one node per dst tile
create_inverse_pixel_index ==
    /\ IF ~HasAttr(forward_index)
       THEN /\ outcome' = [call |-> "create_inverse_pixel_index", result |-> "AttributeError"]
            /\ UNCHANGED <<inverse_index, evaluations>>
       ELSE /\ evaluations' = [evaluations EXCEPT !.forward = Computed(@),
                                                  !.bounds = Computed(@)]
            /\ inverse_index' =
                   [state |-> "lazy", grid |-> dst_grid, shared |-> TRUE, made_for |-> dst_grid,
                    bbox_blocks |->
                        bbox_blocks_of(bbox_blocks_raw_of(ForwardIndex, dst_grid, src_shape,
                                                          src_chunks), dst_grid)]
            /\ outcome' = [call |-> "create_inverse_pixel_index", result |-> "ok"]
    /\ CallFrame("create_inverse_pixel_index")
    /\ UNCHANGED <<dst_grid, forward_index, rectified, num_coverings>>

\* the Inverse-Index node of dst tile t (layer[inv_id], lines 452-464)
InverseNode(t, dup) ==
    inverse_index_of_dst_block_with_src_subset(
        src_subset_of(src_lon, src_lat, src_shape, inverse_index.bbox_blocks[t]),
        <<2 * inverse_index.bbox_blocks[t][1] + 1, 2 * inverse_index.bbox_blocks[t][2] + 1>>,
        inverse_index.grid, t, dup)

\* the execution engine evaluates the Inverse-Index node of one dst tile, for
\* a caller that holds the Rectifier (rectify_to_covering_grid returns the
\* rectified array only)
compute_inverse_block(t) ==
    /\ NoNodeEvaluated
    /\ flow = 0
    /\ inverse_index.state = "lazy"
    /\ t \in DOMAIN inverse_index.bbox_blocks
    /\ \E node \in {InverseNode(t, numpy_order)} :
          inverse_block' = [tile |-> t, error |-> node.error, block |-> node.block]
    /\ UNCHANGED <<inputs, dst_grid, forward_index, inverse_index, rectified, output_block,
                   outcome, num_coverings, evaluations, flow>>

\* Rectifier.rectify_nearest_neighbour: a missing destination grid raises
\* ValueError, self.inverse_index does not exist before
\* create_inverse_pixel_index (AttributeError); the inverse index is
\* computed, every node of it, and an error of a node ends the call; then
\* per dst tile the rounded index and the set of source tiles are fixed and
\* one Resample node is built.  Not modelled: a call after the Grid was
\* replaced under a built inverse index.
rectify_nearest_neighbour ==
    /\ IF dst_grid = NoGrid
       THEN /\ outcome' = [call |-> "rectify_nearest_neighbour",
                           result |-> "ValueError: missing dst grid"]
            /\ UNCHANGED rectified
       ELSE IF ~HasAttr(inverse_index)
       THEN /\ outcome' = [call |-> "rectify_nearest_neighbour", result |-> "AttributeError"]
            /\ UNCHANGED rectified
       ELSE /\ inverse_index.grid = inverse_index.made_for
            /\ dst_grid = inverse_index.made_for
            /\ \E inverse \in {Array([t \in DOMAIN inverse_index.bbox_blocks |->
                                          InverseNode(t, numpy_order)])} :
               \E nodes \in {Array([t \in DOMAIN inverse |->
                                  LET intblock == intblock_of(inverse[t].block)
                                      tile_set == tile_set_of(intblock, ChunkSize(src_shape, src_chunks),
                                                    NumBlocks(src_shape[1], ChunkSize(src_shape, src_chunks)[1]),
                                                    NumBlocks(src_shape[2], ChunkSize(src_shape, src_chunks)[2]))
                                  IN  [intblock |-> intblock, error |-> tile_set.error,
                                       tiles |-> tile_set.tiles]])} :
                     IF \E t \in DOMAIN inverse : inverse[t].error
                     THEN /\ outcome' = [call |-> "rectify_nearest_neighbour",
                                         result |-> "ValueError"]
                          /\ UNCHANGED rectified
                     ELSE IF \E t \in DOMAIN inverse : nodes[t].error
                     THEN /\ outcome' = [call |-> "rectify_nearest_neighbour",
                                         result |-> "IndexError"]
                          /\ UNCHANGED rectified
                     ELSE /\ outcome' = [call |-> "rectify_nearest_neighbour", result |-> "ok"]
                          /\ rectified' = [state |-> "lazy",
                                           inverse |-> [t \in DOMAIN inverse |-> inverse[t].block],
                                           nodes |-> nodes]
    /\ CallFrame("rectify_nearest_neighbour")
    /\ UNCHANGED <<dst_grid, forward_index, inverse_index, num_coverings, evaluations>>

\* the execution engine evaluates the Resample node of one dst tile
compute_output_block(t) ==
    /\ NoNodeEvaluated
    /\ rectified.state = "lazy"
    /\ t \in DOMAIN rectified.nodes
    /\ output_block' =
          [tile |-> t, error |-> FALSE,
           block |-> rectify_tiles_to_block(rectified.nodes[t].intblock,
                                            ChunkSize(src_shape, src_chunks),
                                            NumBlocks(src_shape[2], ChunkSize(src_shape, src_chunks)[2]),
                                            rectified.nodes[t].tiles, src_shape, src_chunks)]
    /\ UNCHANGED <<inputs, dst_grid, forward_index, inverse_index, inverse_block, rectified,
                   outcome, num_coverings, evaluations, flow>>

\* every dst tile a grid of the model can have
AllTiles == (0 .. 3) \X (0 .. 3)

Next ==
    \/ create_forward_pixel_index
    \/ determine_covering_dst_grid
    \/ create_inverse_pixel_index
    \/ \E t \in AllTiles : compute_inverse_block(t)
    \/ rectify_nearest_neighbour
    \/ \E t \in AllTiles : compute_output_block(t)

Spec == Init /\ [][Next]_vars

\* -------------------------------------------------------------- properties
\* k = floor(a / b) for integers a, b with b # 0
IsFloor(k, a, b) ==
    IF b > 0 THEN k * b <= a /\ a < (k + 1) * b
    ELSE k * b >= a /\ a > (k + 1) * b

\* the call that ended last, with no node evaluated since
JustCalled(call, result) ==
    /\ outcome = [call |-> call, result |-> result]
    /\ inverse_block = NoBlock
    /\ output_block = NoBlock

C2_CoveringGrid ==
    [][(/\ num_coverings' = num_coverings + 1
        /\ forward_index.grid.x_min = 0
        /\ forward_index.grid.y_min = 0)
       => \E fi \in {ForwardIndex} :
            LET i_min == Min({fi[p][1] : p \in DOMAIN fi})
                j_min == Min({fi[p][2] : p \in DOMAIN fi})
                i_max == Max({fi[p][1] : p \in DOMAIN fi})
                j_max == Max({fi[p][2] : p \in DOMAIN fi})
            IN  /\ dst_grid'.x_min = i_min * dst_grid.x_res
                /\ dst_grid'.y_min = j_min * dst_grid.y_res
                /\ dst_grid'.width = i_max - i_min + 1
                /\ dst_grid'.height = j_max - j_min + 1
                /\ dst_grid'.crs = dst_grid.crs
                /\ dst_grid'.x_res = dst_grid.x_res
                /\ dst_grid'.y_res = dst_grid.y_res
                /\ dst_grid'.tile_width = dst_grid.tile_width
                /\ dst_grid'.tile_height = dst_grid.tile_height]_vars

\* the covering Grid of a forward index against origin (0, 0), with an origin
\* other than (0, 0) and more than one pixel per axis
C2_Witness ==
    /\ JustCalled("determine_covering_dst_grid", "ok")
    /\ num_coverings = 1
    /\ dst_grid.x_min # 0
    /\ dst_grid.width > 1
    /\ dst_grid.height > 1
    /\ dst_grid.x_min =
          Min({FloorDiv(dst_xy(src_lon[p], src_lat[p], dst_grid)[1], dst_grid.x_res) :
                  p \in DOMAIN src_lon}) * dst_grid.x_res
    /\ dst_grid.y_min =
          Min({FloorDiv(dst_xy(src_lon[p], src_lat[p], dst_grid)[2], dst_grid.y_res) :
                  p \in DOMAIN src_lon}) * dst_grid.y_res

Matching(fi, b, t) ==
    LET size == ChunkSize(src_shape, src_chunks)
        left == t[2] * dst_grid.tile_width
        right == Min({(t[2] + 1) * dst_grid.tile_width, dst_grid.width})
        down == t[1] * dst_grid.tile_height
        up == Min({(t[1] + 1) * dst_grid.tile_height, dst_grid.height})
    IN  {p \in DOMAIN fi :
            /\ b[1] * size[1] <= p[1] /\ p[1] < (b[1] + 1) * size[1]
            /\ b[2] * size[2] <= p[2] /\ p[2] < (b[2] + 1) * size[2]
            /\ left <= fi[p][1] /\ fi[p][1] < right
            /\ down <= fi[p][2] /\ fi[p][2] < up}

\* the box of a non-empty set of source pixels with the margin, clipped
MarginBox(pixels) ==
    <<Max({Min({p[2] : p \in pixels}) - 1, 0}),
      Max({Min({p[1] : p \in pixels}) - 1, 0}),
      Min({Max({p[2] : p \in pixels}) + 2, src_shape[2]}),
      Min({Max({p[1] : p \in pixels}) + 2, src_shape[1]})>>

Sentinel == <<src_shape[2], src_shape[1], -1, -1>>

\* the boxes of source tile b as create_inverse_pixel_index computes them
BoxesOfSourceTile(fi, b) ==
    dst_bboxes_of_src_block(BlockOf(fi, src_shape, src_chunks, b), dst_grid,
                            ChunkSize(src_shape, src_chunks), src_shape, b)

Contributing(fi, t) ==
    UNION {Matching(fi, b, t) : b \in BlockIds(src_shape, src_chunks)}

Centre2(g, t, p) ==
    <<2 * g.x_min + (2 * (t[2] * g.tile_width + p[2]) + 1) * g.x_res,
      2 * g.y_min + (2 * (t[1] * g.tile_height + p[1]) + 1) * g.y_res>>

\* twice the projected CRS coordinates of source pixel s = <<row, col>>
Vertex2(g, s) ==
    <<2 * dst_xy(src_lon[s], src_lat[s], g)[1], 2 * dst_xy(src_lon[s], src_lat[s], g)[2]>>

Cross(a, b, c) == (b[1] - a[1]) * (c[2] - a[2]) - (b[2] - a[2]) * (c[1] - a[1])

\* point c is in the closed triangle a0, a1, a2
InTriangle(c, a0, a1, a2) ==
    \/ Cross(a0, a1, c) >= 0 /\ Cross(a1, a2, c) >= 0 /\ Cross(a2, a0, c) >= 0
    \/ Cross(a0, a1, c) <= 0 /\ Cross(a1, a2, c) <= 0 /\ Cross(a2, a0, c) <= 0

\* the centre of pixel p of dst tile t is overlapped by a triangle of the
\* source image
Overlapped(g, t, p) ==
    \E q \in Quads(src_shape) :
        LET c == Centre2(g, t, p)
            P0 == Vertex2(g, q)
            P1 == Vertex2(g, <<q[1], q[2] + 1>>)
            P2 == Vertex2(g, <<q[1] + 1, q[2]>>)
            P3 == Vertex2(g, <<q[1] + 1, q[2] + 1>>)
        IN  InTriangle(c, P0, P1, P2) \/ InTriangle(c, P3, P2, P1)

\* C6: when a destination tile has no contributing source pixel (its merged
\* box is the sentinel), building and evaluating its Inverse-Index node and
\* its Resample node raises no error, and the tile is all NaN in the inverse
\* index and in the output.
C6_EmptyCoverageIsSoft ==
    \A t \in DOMAIN inverse_index.bbox_blocks :
        inverse_index.bbox_blocks[t] = Sentinel =>
            /\ inverse_block.tile = t =>
                  /\ ~inverse_block.error
                  /\ \A p \in DOMAIN inverse_block.block : inverse_block.block[p].nan
            /\ outcome.call = "rectify_nearest_neighbour" => outcome.result # "ValueError"
            /\ output_block.tile = t =>
                  \A p \in DOMAIN output_block.block : \A b \in Bands :
                      output_block.block[p][b] = NanValue

\* C7: every destination pixel whose centre is overlapped by no source
\* triangle is NaN in both channels of the inverse index and NaN in every
\* band of the rectified output.
C7_UncoveredIsNaN ==
    /\ inverse_block.tile \in DOMAIN inverse_index.bbox_blocks =>
          \A p \in Pixels(dst_block_shape(inverse_index.grid, inverse_block.tile)) :
              ~Overlapped(inverse_index.grid, inverse_block.tile, p) =>
                  /\ ~inverse_block.error
                  /\ p \in DOMAIN inverse_block.block
                  /\ inverse_block.block[p].nan
    /\ output_block.tile \in DOMAIN rectified.nodes =>
          \A p \in Pixels(dst_block_shape(dst_grid, output_block.tile)) :
              ~Overlapped(dst_grid, output_block.tile, p) =>
                  /\ p \in DOMAIN output_block.block
                  /\ \A b \in Bands : output_block.block[p][b] = NanValue

\* the rational r = <<n, d>> equals the integer k within delta = 0.001
WithinDelta(r, k) == UvDeltaInv * Abs(r[1] - k * r[2]) <= r[2]

\* C8: for every destination pixel whose centre is exactly the projected
\* location of a source pixel (col, row), the inverse index at that
\* destination pixel equals (col, row) within delta = 0.001.
C8_InverseIndexConsistency ==
    (/\ inverse_block.tile \in DOMAIN inverse_index.bbox_blocks
     /\ ~inverse_block.error
     /\ inverse_index.grid = inverse_index.made_for) =>
        \A p \in DOMAIN inverse_block.block : \A s \in DOMAIN src_lon :
            Vertex2(inverse_index.grid, s) = Centre2(inverse_index.grid, inverse_block.tile, p) =>
                /\ ~inverse_block.block[p].nan
                /\ WithinDelta(inverse_block.block[p].col, s[2])
                /\ WithinDelta(inverse_block.block[p].row, s[1])

\* the integers nearest to the rational r = <<n, d>> (two of them at a half)
Nearest(r) ==
    {k \in -1 .. SrcWidth + SrcHeight + 1 : 2 * Abs(r[1] - k * r[2]) <= r[2]}

\* C9: for every destination pixel with a non-NaN inverse index (c, r) every
\* band of the output equals that band's measurement at the source pixel
\* whose column and row are c and r rounded to the nearest integer; a NaN
\* inverse index becomes the sentinel -1 and is matched to no source tile.
C9_NearestNeighbour ==
    output_block.tile \in DOMAIN rectified.nodes =>
        \A p \in DOMAIN rectified.inverse[output_block.tile] :
            LET inv == rectified.inverse[output_block.tile][p]
            IN  IF inv.nan
                THEN /\ rectified.nodes[output_block.tile].intblock[p] = <<-1, -1>>
                     /\ \A b \in Bands : output_block.block[p][b] = NanValue
                ELSE \A b \in Bands :
                        \E c \in Nearest(inv.col), r \in Nearest(inv.row) :
                            output_block.block[p][b] = measurement(b, <<r, c>>)

\* the numbers of the source tiles that contain the rounded inverse index of
\* a pixel of the dst tile with the given intblock
TilesOfRoundedIndex(intblock) ==
    {b[1] * NumBlocks(src_shape[2], ChunkSize(src_shape, src_chunks)[2]) + b[2] :
        b \in {b \in BlockIds(src_shape, ChunkSize(src_shape, src_chunks)) :
                 \E p \in DOMAIN intblock :
                     <<intblock[p][2], intblock[p][1]>>
                         \in BlockPixels(src_shape, ChunkSize(src_shape, src_chunks), b)}}

\* C10: for every destination tile the source tiles declared as inputs of its
\* Resample node are exactly the source tiles that contain the rounded
\* inverse index of at least one pixel of the destination tile.
C10_MinimalSourceReads ==
    rectified.state = "lazy" =>
        \A t \in DOMAIN rectified.nodes :
            rectified.nodes[t].tiles = TilesOfRoundedIndex(rectified.nodes[t].intblock)

\* C11: building the resample graph with rectify_nearest_neighbour evaluates
\* no Inverse-Index node, and when the output of one dst tile is obtained the
\* only Inverse-Index node that was evaluated for it is the node of that
\* tile.
C11_TileWiseLaziness ==
    /\ JustCalled("rectify_nearest_neighbour", "ok") => rectified.inverse = <<>>
    /\ output_block # NoBlock => DOMAIN rectified.inverse \subseteq {output_block.tile}

C12_CoveringNeedsForwardIndex ==
    [][(forward_index.state = "missing" /\ outcome'.call = "determine_covering_dst_grid")
       => /\ outcome'.result # "ok"
          /\ dst_grid' = dst_grid
          /\ forward_index' = forward_index
          /\ inverse_index' = inverse_index
          /\ num_coverings' = num_coverings]_vars

\* determine_covering_dst_grid failed on a Rectifier that has a destination
\* grid and no forward index
C12_Witness ==
    /\ JustCalled("determine_covering_dst_grid", "AttributeError")
    /\ forward_index.state = "missing"
    /\ dst_grid # NoGrid
    /\ num_coverings = 0

\* C13: create_inverse_pixel_index fails exactly when the forward index is
\* missing, rectify_nearest_neighbour fails exactly when the inverse index
\* or the destination grid is missing; a failed call returns no array, and
\* with the calls in order (forward index, inverse index, rectify) each call
\* succeeds.
C13_PreconditionErrors ==
    /\ outcome.call = "create_inverse_pixel_index" =>
          /\ outcome.result = "ok" <=> forward_index.state = "lazy"
          /\ outcome.result # "ok" => inverse_index.state = "missing"
    /\ outcome.call = "rectify_nearest_neighbour" =>
          /\ outcome.result = "ok" <=> (inverse_index.state = "lazy" /\ dst_grid # NoGrid)
          /\ outcome.result # "ok" => rectified.state = "missing"

\* the quads (global <<row, col>> of P0) of the source subset of a box
QuadsOfBox(bbox) ==
    {q \in Quads(src_shape) :
        /\ bbox[2] <= q[1] /\ q[1] + 1 < bbox[4]
        /\ bbox[1] <= q[2] /\ q[2] + 1 < bbox[3]}

\* the vertices (twice their CRS coordinates) of triangle tri of quad q:
\* "a" is P0, P1, P2 and "b" is P3, P2, P1
TriangleOf(g, q, tri) ==
    IF tri = "a"
    THEN <<Vertex2(g, q), Vertex2(g, <<q[1], q[2] + 1>>), Vertex2(g, <<q[1] + 1, q[2]>>)>>
    ELSE <<Vertex2(g, <<q[1] + 1, q[2] + 1>>), Vertex2(g, <<q[1] + 1, q[2]>>),
           Vertex2(g, <<q[1], q[2] + 1>>)>>

\* twice the signed area of a triangle
Area2(tr) == Cross(tr[1], tr[2], tr[3])

\* point c is on the collinear points of a triangle of zero area
OnFlatTriangle(c, tr) ==
    /\ Area2(tr) = 0
    /\ Cross(tr[1], tr[2], c) = 0 /\ Cross(tr[1], tr[3], c) = 0 /\ Cross(tr[2], tr[3], c) = 0
    /\ \A k \in 1 .. 2 :
          /\ Min({tr[1][k], tr[2][k], tr[3][k]}) <= c[k]
          /\ c[k] <= Max({tr[1][k], tr[2][k], tr[3][k]})

\* C14: when the source subset of an Inverse-Index node has a triangle of
\* zero area (det_a or det_b is 0), the node completes without an error and
\* that triangle writes nothing: every pixel that is not NaN has its centre
\* in a triangle of the subset whose area is not zero.
C14_DegenerateGeometry ==
    inverse_block.tile \in DOMAIN inverse_index.bbox_blocks =>
        LET g == inverse_index.grid
            t == inverse_block.tile
            triangles == {TriangleOf(g, q, tri) :
                             q \in QuadsOfBox(inverse_index.bbox_blocks[t]), tri \in {"a", "b"}}
        IN  (\E tr \in triangles : Area2(tr) = 0) =>
                /\ ~inverse_block.error
                /\ DOMAIN inverse_block.block = Pixels(dst_block_shape(g, t))
                /\ \A p \in DOMAIN inverse_block.block :
                      ~inverse_block.block[p].nan =>
                          \E tr \in triangles :
                              /\ Area2(tr) # 0
                              /\ InTriangle(Centre2(g, t, p), tr[1], tr[2], tr[3])

\* a node evaluated without error on a subset with a triangle of zero area:
\* a pixel whose centre is on that triangle is NaN
C14_Witness ==
    /\ inverse_block.tile \in DOMAIN inverse_index.bbox_blocks
    /\ ~inverse_block.error
    /\ LET g == inverse_index.grid
           t == inverse_block.tile
           triangles == {TriangleOf(g, q, tri) :
                            q \in QuadsOfBox(inverse_index.bbox_blocks[t]), tri \in {"a", "b"}}
       IN  \E p \in DOMAIN inverse_block.block :
               /\ inverse_block.block[p].nan
               /\ \E tr \in triangles : OnFlatTriangle(Centre2(g, t, p), tr)

\* C15: the Grid is changed only by determine_covering_dst_grid, at most
\* once, and only before an inverse index has been built; no other operation
\* changes it, and after the inverse index is built the Grid its nodes read
\* stays as it is.
C15_GridMutationDiscipline ==
    [][/\ dst_grid' # dst_grid =>
             /\ outcome'.call = "determine_covering_dst_grid"
             /\ num_coverings = 0
             /\ inverse_index.state = "missing"
       /\ (inverse_index.state = "lazy" /\ outcome'.call # "create_inverse_pixel_index") =>
             inverse_index'.grid = inverse_index.grid]_vars

\* the pixels <<row, col>> of the destination image that the node of dst tile
\* t writes, given the pixels of its block
RegionOf(g, t, block_pixels) ==
    {<<t[1] * g.tile_height + p[1], t[2] * g.tile_width + p[2]>> : p \in block_pixels}

C18_SynchronizationPoint ==
    flow # 0 =>
        /\ num_coverings = IF flow > 2 THEN 1 ELSE 0
        /\ num_coverings = 1 =>
              /\ evaluations.forward >= 1
              /\ \A p \in DOMAIN src_lon :
                    \A xy \in {dst_xy(src_lon[p], src_lat[p], dst_grid)} :
                        /\ FloorDiv(xy[1] - dst_grid.x_min, dst_grid.x_res)
                               \in 0 .. dst_grid.width - 1
                        /\ FloorDiv(xy[2] - dst_grid.y_min, dst_grid.y_res)
                               \in 0 .. dst_grid.height - 1
        /\ inverse_index.state = "lazy" =>
              /\ num_coverings = 1
              /\ inverse_index.made_for = dst_grid
              /\ inverse_index.grid = dst_grid
        /\ rectified.state = "lazy" => inverse_index.state = "lazy"

\* rectify_to_covering_grid returned the rectified array of a covering Grid
\* with more than one pixel per axis and an origin other than (0, 0)
C18_Witness ==
    /\ flow = Len(CoveringFlow) + 1
    /\ JustCalled("rectify_nearest_neighbour", "ok")
    /\ num_coverings = 1
    /\ dst_grid.width > 1
    /\ dst_grid.height > 1
    /\ dst_grid.x_min # 0

\* the rationals a and b, each <<numerator, denominator>>, are equal
RatEq(a, b) == a[1] * b[2] = b[1] * a[2]

\* the barycentric coordinates of point c in triangle tr = <<O, A1, A2>>, the
\* solution of c - O = u * (A1 - O) + v * (A2 - O): u = un / d, v = vn / d,
\* d > 0; d = 0 for a triangle of zero area
Coordinates(c, tr) ==
    [un |-> Sgn(Area2(tr)) * Cross(tr[1], c, tr[3]),
     vn |-> Sgn(Area2(tr)) * Cross(tr[1], tr[2], c),
     d |-> Abs(Area2(tr))]

\* the containment test: u >= -delta, v >= -delta, u + v <= 1 + 2 * delta
Contains(uv) ==
    /\ uv.d > 0
    /\ UvDeltaInv * uv.un >= -uv.d
    /\ UvDeltaInv * uv.vn >= -uv.d
    /\ UvDeltaInv * (uv.un + uv.vn) <= (UvDeltaInv + 2) * uv.d

\* the value <<col, row>> the rule assigns for quad q (global <<row, col>> of
\* P0) of the subset of box bbox: local source column + src_offset_x + u and
\* local source row + src_offset_y + v for triangle "a", with 1 - u and 1 - v
\* for triangle "b"; src_offset is the corner of bbox plus 0.5 (line 460)
RuleValue(q, tri, uv, bbox) ==
    LET local_col == q[2] - bbox[1]
        local_row == q[1] - bbox[2]
        offset2 == <<2 * bbox[1] + 1, 2 * bbox[2] + 1>>
    IN  IF tri = "a"
        THEN << <<(2 * local_col + offset2[1]) * uv.d + 2 * uv.un, 2 * uv.d>>,
                <<(2 * local_row + offset2[2]) * uv.d + 2 * uv.vn, 2 * uv.d>> >>
        ELSE << <<(2 * local_col + offset2[1] + 2) * uv.d - 2 * uv.un, 2 * uv.d>>,
                <<(2 * local_row + offset2[2] + 2) * uv.d - 2 * uv.vn, 2 * uv.d>> >>

\* the sweep of the node of dst tile t: [j, i] maps a quad (global) to the
\* first pixel of its box, and height, width are the numbers of offsets
SweepOf(g, t, bbox) ==
    LET four_points ==
            triangles_in_dst_pixel_grid(src_subset_of(src_lon, src_lat, src_shape, bbox), g, t)
        bb == bboxes_of_triangles(four_points, g)
    IN  [j |-> Array([q \in QuadsOfBox(bbox) |-> bb.min_j[<<q[1] - bbox[2], q[2] - bbox[1]>>]]),
         i |-> Array([q \in QuadsOfBox(bbox) |-> bb.min_i[<<q[1] - bbox[2], q[2] - bbox[1]>>]]),
         height |-> bb.max_height, width |-> bb.max_width]

\* the triangles <<q, tri>> whose sweep reaches pixel p of dst tile t and
\* whose containment test the centre of p passes
PassingTriangles(g, t, bbox, sweep, p) ==
    {w \in QuadsOfBox(bbox) \X {"a", "b"} :
        /\ p[1] - sweep.j[w[1]] \in 0 .. sweep.height - 1
        /\ p[2] - sweep.i[w[1]] \in 0 .. sweep.width - 1
        /\ Contains(Coordinates(Centre2(g, t, p), TriangleOf(g, w[1], w[2])))}

\* the pixel p holds the value the rule assigns for triangle w
HoldsValueOf(g, t, bbox, p, w, held) ==
    LET val == RuleValue(w[1], w[2],
                         Coordinates(Centre2(g, t, p), TriangleOf(g, w[1], w[2])), bbox)
    IN  /\ ~held.nan
        /\ RatEq(held.col, val[1])
        /\ RatEq(held.row, val[2])

\* C19: in the block of an evaluated Inverse-Index node, whose pixels are
\* those of the tile's actual extent, a pixel is written exactly when its
\* centre passes the test u >= -delta, v >= -delta, u + v <= 1 + 2 * delta
\* of a triangle whose sweep reaches it, and its value is then (local source
\* column + src_offset_x + u, local source row + src_offset_y + v) of such a
\* triangle A, or the same with 1 - u, 1 - v and origin P3 of such a
\* triangle B; a pixel that passes no test is NaN.
C19_RasterizationRule ==
    (inverse_block.tile \in DOMAIN inverse_index.bbox_blocks /\ ~inverse_block.error) =>
        LET g == inverse_index.grid
            t == inverse_block.tile
            bbox == inverse_index.bbox_blocks[t]
            sweep == SweepOf(g, t, bbox)
        IN  /\ DOMAIN inverse_block.block = Pixels(dst_block_shape(g, t))
            /\ \A p \in DOMAIN inverse_block.block :
                  \A passing \in {PassingTriangles(g, t, bbox, sweep, p)} :
                      IF passing = {}
                      THEN inverse_block.block[p].nan
                      ELSE \E w \in passing :
                               HoldsValueOf(g, t, bbox, p, w, inverse_block.block[p])

\* an evaluated node with a pixel that is written although its centre is
\* outside every triangle that passes the test (by less than delta), and a
\* pixel that passes no test
C19_Witness ==
    /\ inverse_block.tile \in DOMAIN inverse_index.bbox_blocks
    /\ ~inverse_block.error
    /\ LET g == inverse_index.grid
           t == inverse_block.tile
           bbox == inverse_index.bbox_blocks[t]
           sweep == SweepOf(g, t, bbox)
       IN  /\ \E p \in DOMAIN inverse_block.block :
                 /\ ~inverse_block.block[p].nan
                 /\ \A w \in PassingTriangles(g, t, bbox, sweep, p) :
                        \E tr \in {TriangleOf(g, w[1], w[2])} :
                            ~InTriangle(Centre2(g, t, p), tr[1], tr[2], tr[3])
           /\ \E p \in DOMAIN inverse_block.block :
                 PassingTriangles(g, t, bbox, sweep, p) = {}

\* an evaluated node with a pixel written from a triangle A only and a pixel
\* written from a triangle B only
C19_BothTriangles ==
    /\ inverse_block.tile \in DOMAIN inverse_index.bbox_blocks
    /\ ~inverse_block.error
    /\ LET g == inverse_index.grid
           t == inverse_block.tile
           bbox == inverse_index.bbox_blocks[t]
           sweep == SweepOf(g, t, bbox)
       IN  /\ \E p \in DOMAIN inverse_block.block :
                 /\ PassingTriangles(g, t, bbox, sweep, p) # {}
                 /\ \A w \in PassingTriangles(g, t, bbox, sweep, p) : w[2] = "a"
           /\ \E p \in DOMAIN inverse_block.block :
                 /\ PassingTriangles(g, t, bbox, sweep, p) # {}
                 /\ \A w \in PassingTriangles(g, t, bbox, sweep, p) : w[2] = "b"

\* triangle w1 is evaluated for pixel p before triangle w2: the sweep runs
\* over j_offset, then i_offset, and assigns triangle a before triangle b;
\* of the quads of one assignment numpy writes the pixel in numpy_order
EvaluatedBefore(sweep, p, w1, w2) ==
    LET j_offset(w) == p[1] - sweep.j[w[1]]
        i_offset(w) == p[2] - sweep.i[w[1]]
        row_major(qa, qb) == qa[1] < qb[1] \/ (qa[1] = qb[1] /\ qa[2] < qb[2])
    IN  \/ j_offset(w1) < j_offset(w2)
        \/ /\ j_offset(w1) = j_offset(w2)
           /\ \/ i_offset(w1) < i_offset(w2)
              \/ /\ i_offset(w1) = i_offset(w2)
                 /\ \/ w1[2] = "a" /\ w2[2] = "b"
                    \/ /\ w1[2] = w2[2]
                       /\ IF numpy_order = "last" THEN row_major(w1[1], w2[1])
                          ELSE row_major(w2[1], w1[1])

\* C20: a pixel of an evaluated Inverse-Index node that passes the test of
\* more than one triangle holds the value of the triangle evaluated last,
\* column and row both.
C20_LastWriteWins ==
    (inverse_block.tile \in DOMAIN inverse_index.bbox_blocks /\ ~inverse_block.error) =>
        LET g == inverse_index.grid
            t == inverse_block.tile
            bbox == inverse_index.bbox_blocks[t]
            sweep == SweepOf(g, t, bbox)
        IN  \A p \in DOMAIN inverse_block.block :
                \A passing \in {PassingTriangles(g, t, bbox, sweep, p)} :
                    \A w \in passing :
                        (\A v \in passing \ {w} : EvaluatedBefore(sweep, p, v, w)) =>
                            HoldsValueOf(g, t, bbox, p, w, inverse_block.block[p])

\* a pixel of an evaluated node passes the tests of two triangles whose
\* values differ in column and in row, and holds the value of the later one
C20_Witness ==
    /\ inverse_block.tile \in DOMAIN inverse_index.bbox_blocks
    /\ ~inverse_block.error
    /\ LET g == inverse_index.grid
           t == inverse_block.tile
           bbox == inverse_index.bbox_blocks[t]
           sweep == SweepOf(g, t, bbox)
       IN  \E p \in DOMAIN inverse_block.block :
               \E w1, w2 \in PassingTriangles(g, t, bbox, sweep, p) :
                   /\ EvaluatedBefore(sweep, p, w1, w2)
                   /\ HoldsValueOf(g, t, bbox, p, w2, inverse_block.block[p])
                   /\ \A val \in {RuleValue(w1[1], w1[2],
                                     Coordinates(Centre2(g, t, p), TriangleOf(g, w1[1], w1[2])),
                                     bbox)} :
                          /\ ~RatEq(inverse_block.block[p].col, val[1])
                          /\ ~RatEq(inverse_block.block[p].row, val[2])

\* the actual extent <<height, width>> of dst tile t of grid g: the tile
\* size, cut at the last row and the last column of the grid
TileExtent(g, t) ==
    <<Min({g.tile_height, g.height - t[1] * g.tile_height}),
      Min({g.tile_width, g.width - t[2] * g.tile_width})>>

\* C21: the inverse index of a Grid has ceil(height / tile_height) x
\* ceil(width / tile_width) Inverse-Index nodes; the node of every tile
\* returns a block of the tile's actual extent, and the blocks of all tiles
\* partition the pixels of the Grid.
C21_TileGeometry ==
    inverse_index.state = "lazy" =>
        LET g == inverse_index.made_for
        IN  /\ DOMAIN inverse_index.bbox_blocks =
                  (0 .. CeilDiv(g.height, g.tile_height) - 1)
                      \X (0 .. CeilDiv(g.width, g.tile_width) - 1)
            /\ inverse_block.tile \in DOMAIN inverse_index.bbox_blocks =>
                  /\ ~inverse_block.error
                  /\ DOMAIN inverse_block.block = Pixels(TileExtent(g, inverse_block.tile))
            /\ rectified.state = "lazy" =>
                  /\ \A t \in DOMAIN inverse_index.bbox_blocks :
                        DOMAIN rectified.inverse[t] = Pixels(TileExtent(g, t))
                  /\ \A p \in Pixels(<<g.height, g.width>>) :
                        Cardinality({t \in DOMAIN rectified.inverse :
                            p \in RegionOf(g, t, DOMAIN rectified.inverse[t])}) = 1

\* C21 for the nodes that return a block, of an inverse index whose Grid was
\* not replaced after it was built
C21_TileGeometryOfBlocks ==
    (inverse_index.state = "lazy" /\ inverse_index.grid = inverse_index.made_for) =>
        LET g == inverse_index.made_for
        IN  /\ DOMAIN inverse_index.bbox_blocks =
                  (0 .. CeilDiv(g.height, g.tile_height) - 1)
                      \X (0 .. CeilDiv(g.width, g.tile_width) - 1)
            /\ (inverse_block.tile \in DOMAIN inverse_index.bbox_blocks
                    /\ ~inverse_block.error) =>
                  DOMAIN inverse_block.block = Pixels(TileExtent(g, inverse_block.tile))
            /\ rectified.state = "lazy" =>
                  /\ \A t \in DOMAIN inverse_index.bbox_blocks :
                        DOMAIN rectified.inverse[t] = Pixels(TileExtent(g, t))
                  /\ \A p \in Pixels(<<g.height, g.width>>) :
                        Cardinality({t \in DOMAIN rectified.inverse :
                            p \in RegionOf(g, t, DOMAIN rectified.inverse[t])}) = 1

\* C22: in the block of an evaluated Inverse-Index node every pixel whose
\* centre passes the containment test of a triangle of the node's source
\* subset is not NaN, also when P0 of the quad is outside the dst tile.
C22_CoverageCompleteness ==
    (inverse_block.tile \in DOMAIN inverse_index.bbox_blocks /\ ~inverse_block.error) =>
        LET g == inverse_index.grid
            t == inverse_block.tile
            bbox == inverse_index.bbox_blocks[t]
        IN  \A p \in DOMAIN inverse_block.block :
                (\E q \in QuadsOfBox(bbox), tri \in {"a", "b"} :
                     Contains(Coordinates(Centre2(g, t, p), TriangleOf(g, q, tri))))
                    => ~inverse_block.block[p].nan

\* the rounded index ij = <<column, row>> is the sentinel or a source pixel,
\* and then its source tile number is that of the tile the pixel is in
InIndexRange(ij) ==
    LET chunksize == ChunkSize(src_shape, src_chunks)
        num_tiles_row == NumBlocks(src_shape[1], chunksize[1])
        num_tiles_col == NumBlocks(src_shape[2], chunksize[2])
    IN  \/ ij = <<-1, -1>>
        \/ /\ ij[1] \in 0 .. src_shape[2] - 1
           /\ ij[2] \in 0 .. src_shape[1] - 1
           /\ block_tile_of(ij, chunksize, num_tiles_col) \in 0 .. num_tiles_row * num_tiles_col - 1
           /\ ij[1] \div chunksize[2] < num_tiles_col

\* C23: the rounded inverse index of every destination pixel, as
\* rectify_nearest_neighbour computes it from the block of an Inverse-Index
\* node, is the sentinel (-1, -1) or a source pixel with column in
\* [0, src_width) and row in [0, src_height); the source tile number is in
\* [0, num_tiles_row * num_tiles_col), and the lookup in the tile table
\* raises no IndexError.
C23_IndexRange ==
    /\ (inverse_block.tile \in DOMAIN inverse_index.bbox_blocks /\ ~inverse_block.error) =>
          \A p \in DOMAIN inverse_block.block :
              InIndexRange(intblock_of(inverse_block.block)[p])
    /\ rectified.state = "lazy" =>
          \A t \in DOMAIN rectified.nodes : \A p \in DOMAIN rectified.nodes[t].intblock :
              InIndexRange(rectified.nodes[t].intblock[p])
    /\ outcome # [call |-> "rectify_nearest_neighbour", result |-> "IndexError"]

\* C24: a call of determine_covering_dst_grid that follows a successful call
\* of determine_covering_dst_grid, with no other call in between, returns a
\* Grid equal to the one the first call returned.
C24_CoveringIdempotence ==
    [][(/\ JustCalled("determine_covering_dst_grid", "ok")
        /\ num_coverings' = num_coverings + 1) => dst_grid' = dst_grid]_vars

====
